---------------------------- MODULE Spec2Model ----------------------------
(***************************************************************************)
(* Model of streamlit_app.py (Bambu Lab Print Looper): the section locator *)
(* find_gcode_sections, the assemblers create_looped_gcode and             *)
(* build_combined_looped_gcode, the limit guard enforce_limits, the        *)
(* container functions extract_first_gcode_from_3mf / wrap_in_3mf and the  *)
(* processing block of the page script.                                    *)
(*                                                                         *)
(* Representation of strings.  A character is its code point (a byte is    *)
(* its value).  A str or bytes value is the sequence of its lines as       *)
(* str.split('\n') gives them, run-length coded: a sequence of items       *)
(* [line |-> <<code points, none of them 10>>, count |-> k >= 1], standing *)
(* for the lines joined by "\n", each line repeated count times.  Every    *)
(* string has such a form; the count is what lets a document be megabytes  *)
(* long, which the output size ceiling needs.                              *)
(***************************************************************************)
EXTENDS Integers, Sequences, FiniteSets, TLC

VARIABLES
    pc,                  \* position of the modelled call or script run
    gcode_text,          \* the instruction text handed to the locator / assembler
    sections,            \* locals and outcome of find_gcode_sections
    sweep,               \* the assemblers' local sweep
    bodies,              \* per file of the combiner: what was located in it
    base_parts,          \* the combiner's local base_parts
    parts,               \* the list an assembler joins (parts, loop_parts)
    uploaded_files,      \* st.file_uploader: the uploaded packages, upload order
    num_loops,           \* st.number_input "Number of loop sequences"
    sweep_interval,      \* st.number_input "Minutes between loop sequences"
    disable_final_home,  \* st.checkbox "Skip final homing (G28)"
    custom_sweep,        \* st.text_area of the sweep override
    order_input,         \* st.text_input "Order of files", one line
    sweep_between_files, \* st.checkbox "Sweep between files inside a loop"
    per_file_wait,       \* st.number_input "Minutes to wait between files"
    ordered,             \* the files in the order they are combined
    result,              \* what the assembler call returned or raised
    looped_gcode,        \* the assembled text, once an assembler returned
    output_3mf,          \* what wrap_in_3mf returned or raised
    calls,               \* the functions called so far, in call order
    reported             \* the error the run reported, if any

widgets == <<uploaded_files, num_loops, sweep_interval, disable_final_home,
             custom_sweep, order_input, sweep_between_files, per_file_wait>>

\* locals of the combiner alone
combined == <<bodies, base_parts>>

vars == <<pc, gcode_text, sections, sweep, combined, parts, widgets, ordered,
          result, looped_gcode, output_3mf, calls, reported>>

None == "none"

Min(S) == CHOOSE x \in S : \A y \in S : x <= y
Max(S) == CHOOSE x \in S : \A y \in S : x >= y

\* F applied to the value of e (of a and b): TLC may evaluate an operator's
\* argument anew at each use of the parameter, which a recursion cannot afford
Eval(F(_), e) == CHOOSE r \in {F(x) : x \in {e}} : TRUE
Eval2(F(_, _), a, b) == CHOOSE r \in {F(x[1], x[2]) : x \in {<<a, b>>}} : TRUE

---------------------------------------------------------------------------
(* Characters and Python's str primitives                                  *)

AsciiUpper == " !\"#$%&'()*+,-./0123456789:;<=>?@ABCDEFGHIJKLMNOPQRSTUVWXYZ[\\]^_"
AsciiLower == "abcdefghijklmnopqrstuvwxyz{|}~"

\* ord(c) of a printable ASCII character c (32..95 and 97..126)
ord(c) ==
    IF \E k \in 1..Len(AsciiUpper) : SubSeq(AsciiUpper, k, k) = c
    THEN 31 + (CHOOSE k \in 1..Len(AsciiUpper) : SubSeq(AsciiUpper, k, k) = c)
    ELSE 96 + (CHOOSE k \in 1..Len(AsciiLower) : SubSeq(AsciiLower, k, k) = c)

\* the code points of a one-line literal
Str(s) == [i \in 1..Len(s) |-> ord(SubSeq(s, i, i))]

\* str.find within one line: lowest 0-based index of p in s, or -1
Find(s, p) ==
    LET hits == {i \in 0..(Len(s) - Len(p)) : SubSeq(s, i + 1, i + Len(p)) = p}
    IN  IF hits = {} THEN -1 ELSE Min(hits)

\* str.rfind within one line: highest 0-based index of p in s, or -1
RFind(s, p) ==
    LET hits == {i \in 0..(Len(s) - Len(p)) : SubSeq(s, i + 1, i + Len(p)) = p}
    IN  IF hits = {} THEN -1 ELSE Max(hits)

\* `p in s` for one line
Contains(s, p) == Find(s, p) # -1

Item(l, k) == [line |-> l, count |-> k]

\* a text given by its lines
Lines(ss) == [i \in 1..Len(ss) |-> Item(Str(ss[i]), 1)]

EmptyText == <<Item(<<>>, 1)>>

\* None where a str or bytes value is expected
NoText == <<>>

\* characters an item takes up, the "\n" after each of its lines included
ItemSize(it) == it.count * (Len(it.line) + 1)

RECURSIVE SumSizes(_, _, _)
SumSizes(t, lo, hi) ==
    IF lo > hi THEN 0
    ELSE IF lo = hi THEN ItemSize(t[lo])
    ELSE LET mid == (lo + hi) \div 2
         IN  SumSizes(t, lo, mid) + SumSizes(t, mid + 1, hi)

\* len(text): the last line has no "\n" after it
TextLen(t) == SumSizes(t, 1, Len(t)) - 1

\* 0-based position of the first character of item k
ItemStart(t, k) == SumSizes(t, 1, k - 1)

\* text.find(p), p without "\n": an occurrence lies inside one line
text_find(t, p) ==
    LET hits == {k \in 1..Len(t) : Contains(t[k].line, p)}
    IN  IF hits = {} THEN -1
        ELSE LET k == Min(hits) IN ItemStart(t, k) + Find(t[k].line, p)

\* text.rfind(p), p without "\n": the last copy of the last line holding p
text_rfind(t, p) ==
    LET hits == {k \in 1..Len(t) : Contains(t[k].line, p)}
    IN  IF hits = {} THEN -1
        ELSE LET k == Max(hits)
             IN  ItemStart(t, k) + (t[k].count - 1) * (Len(t[k].line) + 1)
                 + RFind(t[k].line, p)

\* canonical form: adjacent items with the same line are one item
\* an item put before a canonical text
Cons(it, r) ==
    IF it.line = r[1].line
    THEN <<Item(it.line, it.count + r[1].count)>> \o Tail(r)
    ELSE <<it>> \o r

RECURSIVE Norm(_)
Norm(t) ==
    IF Len(t) <= 1 THEN t
    ELSE Eval2(Cons, t[1], Norm(Tail(t)))

Copies(l, k) == IF k > 0 THEN <<Item(l, k)>> ELSE <<>>

\* text[:n] for 0 <= n <= len(text)
RECURSIVE TakeItems(_, _)
TakeItems(t, n) ==
    LET it == t[1]
        w  == Len(it.line) + 1
    IN  IF n < ItemSize(it)
        THEN Copies(it.line, n \div w) \o <<Item(SubSeq(it.line, 1, n % w), 1)>>
        ELSE <<it>> \o TakeItems(Tail(t), n - ItemSize(it))

\* text[n:] for 0 <= n <= len(text)
RECURSIVE DropItems(_, _)
DropItems(t, n) ==
    LET it == t[1]
        w  == Len(it.line) + 1
    IN  IF n < ItemSize(it)
        THEN <<Item(SubSeq(it.line, (n % w) + 1, Len(it.line)), 1)>>
             \o Copies(it.line, it.count - (n \div w) - 1) \o Tail(t)
        ELSE DropItems(Tail(t), n - ItemSize(it))

\* text[a:b] for a, b >= 0: indices past the end are clamped, and a slice
\* whose start is not before its stop is the empty string
Slice(t, a, b) ==
    LET n  == TextLen(t)
        lo == IF a > n THEN n ELSE a
        hi == IF b > n THEN n ELSE b
    IN  IF lo >= hi THEN EmptyText
        ELSE Norm(DropItems(TakeItems(t, hi), lo))

\* a + b: the last line of a and the first line of b become one line
Concat(a, b) ==
    LET la == a[Len(a)]
        fb == b[1]
    IN  SubSeq(a, 1, Len(a) - 1) \o Copies(la.line, la.count - 1)
        \o <<Item(la.line \o fb.line, 1)>>
        \o Copies(fb.line, fb.count - 1) \o Tail(b)

\* "".join(parts) of a non-empty list
RECURSIVE JoinRange(_, _, _)
JoinRange(ps, lo, hi) ==
    IF lo = hi THEN ps[lo]
    ELSE Eval2(Concat, JoinRange(ps, lo, (lo + hi) \div 2),
                       JoinRange(ps, (lo + hi) \div 2 + 1, hi))

Join(ps) == Eval(LAMBDA v : JoinRange(v, 1, Len(v)), ps)

---------------------------------------------------------------------------
(* find_gcode_sections                                                     *)

MIN_PRINT_MOVES == 100

start_markers ==
    << Str(";LAYER:0"), Str("; layer 0"), Str(";TYPE:WALL-OUTER"),
       Str("G1 Z0.3"), Str("; retract extruder") >>

end_markers ==
    << Str(";END gcode"), Str(";End of Gcode"), Str(";end of print"),
       Str("M104 S0"), Str("M140 S0") >>

\* scan_start as a scan of the text: the marker occurring earliest wins
scan_start_by_position(text) ==
    LET pos == {text_find(text, start_markers[i]) : i \in 1..Len(start_markers)}
              \ {-1}
    IN  IF pos = {} THEN -1 ELSE Min(pos)

\* for marker in start_markers: pos = find(marker); first hit wins, break
scan_start(text) ==
    LET found == {i \in 1..Len(start_markers) :
                     text_find(text, start_markers[i]) # -1}
    IN  IF found = {} THEN -1
        ELSE text_find(text, start_markers[Min(found)])

\* for marker in end_markers: pos = rfind(marker); first hit wins, break
scan_end(text) ==
    LET found == {i \in 1..Len(end_markers) :
                     text_rfind(text, end_markers[i]) # -1}
    IN  IF found = {} THEN -1
        ELSE text_rfind(text, end_markers[Min(found)])

G1 == Str("G1")
G0 == Str("G0")
Z == Str("Z")
M104_S0 == Str("M104 S0")
M140_S0 == Str("M140 S0")
G28 == Str("G28")

\* ('G1' in line or 'G0' in line) and 'Z' in line
is_z_move(line) ==
    (Contains(line, G1) \/ Contains(line, G0)) /\ Contains(line, Z)

\* 'M104 S0' in line or 'M140 S0' in line or 'G28' in line
is_end_line(line) ==
    \/ Contains(line, M104_S0)
    \/ Contains(line, M140_S0)
    \/ Contains(line, G28)

\* one iteration of the fallback loop on line k: se = <<start, end>> before
fallback_step(text, se, k) ==
    << IF se[1] = -1 /\ is_z_move(text[k].line)
       THEN text_find(text, text[k].line) ELSE se[1],
       IF is_end_line(text[k].line)
       THEN text_find(text, text[k].line) ELSE se[2] >>

\* for i, line in enumerate(text.split('\n')): the copies of an item are the
\* same line, and the loop body gives the same values on each of them
RECURSIVE fallback_scan(_, _, _)
fallback_scan(text, se, k) ==
    IF k > Len(text) THEN se
    ELSE Eval(LAMBDA v : fallback_scan(text, v, k + 1),
              fallback_step(text, se, k))

\* <<start, end>> after the marker scans and, if either is -1, the
\* fallback scan
boundaries(text) ==
    Eval(LAMBDA se0 : IF se0[1] = -1 \/ se0[2] = -1
                      THEN fallback_scan(text, se0, 1) ELSE se0,
         <<scan_start(text), scan_end(text)>>)

\* the locals: start and end after the marker scans and as resolved
located(text, se) ==
    [start_scan |-> scan_start(text), end_scan |-> scan_end(text),
     fallback |-> (scan_start(text) = -1 \/ scan_end(text) = -1),
     start |-> se[1], end |-> se[2]]

not_located(text, se, msg) ==
    [raised |-> "ValueError", msg |-> msg, header |-> NoText,
     print_moves |-> NoText, footer |-> NoText] @@ located(text, se)

\* header, print_moves, footer = text[:start], text[start:end], text[end:]
sliced(text, se) ==
    [raised |-> None, msg |-> None,
     header |-> Slice(text, 0, se[1]),
     print_moves |-> Slice(text, se[1], se[2]),
     footer |-> Slice(text, se[2], TextLen(text))] @@ located(text, se)

\* split without the check of len(print_moves)
split_unchecked(text, se) == sliced(text, se)

\* the slices and the check of len(print_moves); with end < start the slice
\* text[start:end] is empty
split(text, se) ==
    IF TextLen(Slice(text, se[1], se[2])) < MIN_PRINT_MOVES
    THEN not_located(text, se, "Invalid print content length")
    ELSE sliced(text, se)

\* the result holds the locals start and end as well, and the values they
\* had after the marker scans
find_gcode_sections(text) ==
    Eval(LAMBDA se : IF se[1] = -1 \/ se[2] = -1
                     THEN not_located(text, se,
                                      "Could not parse G-code structure")
                     ELSE split(text, se),
         boundaries(text))

---------------------------------------------------------------------------
(* Encodings: str.encode('utf-8'), bytes.decode and safe_decode            *)

\* the UTF-8 bytes of one code point (a Unicode scalar value)
utf8_char(cp) ==
    IF cp < 128 THEN <<cp>>
    ELSE IF cp < 2048 THEN <<192 + (cp \div 64), 128 + (cp % 64)>>
    ELSE IF cp < 65536
         THEN <<224 + (cp \div 4096), 128 + ((cp \div 64) % 64), 128 + (cp % 64)>>
         ELSE <<240 + (cp \div 262144), 128 + ((cp \div 4096) % 64),
                128 + ((cp \div 64) % 64), 128 + (cp % 64)>>

RECURSIVE utf8_line(_)
utf8_line(l) ==
    IF l = <<>> THEN <<>> ELSE utf8_char(l[1]) \o utf8_line(Tail(l))

\* s.encode('utf-8'): "\n" is one byte, so the lines map one to one
str_encode(t) == [i \in 1..Len(t) |-> Item(utf8_line(t[i].line), t[i].count)]

IsCont(b) == b >= 128 /\ b <= 191

\* length of the well-formed UTF-8 sequence at the head of b, 0 if none
utf8_head_len(b) ==
    LET n  == Len(b)
        b1 == b[1]
    IN  IF b1 < 128 THEN 1
        ELSE IF b1 >= 194 /\ b1 <= 223
             THEN IF n >= 2 /\ IsCont(b[2]) THEN 2 ELSE 0
        ELSE IF b1 >= 224 /\ b1 <= 239
             THEN IF /\ n >= 3 /\ IsCont(b[2]) /\ IsCont(b[3])
                     /\ (b1 = 224 => b[2] >= 160)
                     /\ (b1 = 237 => b[2] <= 159)
                  THEN 3 ELSE 0
        ELSE IF b1 >= 240 /\ b1 <= 244
             THEN IF /\ n >= 4 /\ IsCont(b[2]) /\ IsCont(b[3]) /\ IsCont(b[4])
                     /\ (b1 = 240 => b[2] >= 144)
                     /\ (b1 = 244 => b[2] <= 143)
                  THEN 4 ELSE 0
        ELSE 0

utf8_head_value(b, k) ==
    IF k = 1 THEN b[1]
    ELSE IF k = 2 THEN (b[1] - 192) * 64 + (b[2] - 128)
    ELSE IF k = 3
         THEN (b[1] - 224) * 4096 + (b[2] - 128) * 64 + (b[3] - 128)
         ELSE (b[1] - 240) * 262144 + (b[2] - 128) * 4096
              + (b[3] - 128) * 64 + (b[4] - 128)

\* strict UTF-8 decoding of one line of bytes, from byte i on: [ok, chars]
RECURSIVE utf8_decode_from(_, _)
utf8_decode_from(b, i) ==
    IF i > Len(b) THEN [ok |-> TRUE, chars |-> <<>>]
    ELSE IF utf8_head_len(SubSeq(b, i, Len(b))) = 0
    THEN [ok |-> FALSE, chars |-> <<>>]
    ELSE Eval(LAMBDA r :
                [ok |-> r.ok,
                 chars |-> <<utf8_head_value(SubSeq(b, i, Len(b)),
                               utf8_head_len(SubSeq(b, i, Len(b))))>>
                           \o r.chars],
              utf8_decode_from(b, i + utf8_head_len(SubSeq(b, i, Len(b)))))

utf8_decode_line(b) == utf8_decode_from(b, 1)

\* data.decode('utf-8'): [ok, text]; a sequence never spans a "\n"
decode_utf8(data) ==
    IF \A i \in 1..Len(data) : utf8_decode_line(data[i].line).ok
    THEN [ok |-> TRUE,
          text |-> [i \in 1..Len(data) |->
                      Item(utf8_decode_line(data[i].line).chars, data[i].count)]]
    ELSE [ok |-> FALSE, text |-> NoText]

BOM == <<239, 187, 191>>

\* data.decode('utf-8-sig'): a leading byte order mark is dropped
decode_utf8_sig(data) ==
    IF Len(data[1].line) >= 3 /\ SubSeq(data[1].line, 1, 3) = BOM
    THEN decode_utf8(Slice(data, 3, TextLen(data)))
    ELSE decode_utf8(data)

\* data.decode('latin-1'): every byte is the code point of its value
decode_latin1(data) == [ok |-> TRUE, text |-> data]

\* safe_decode: utf-8, then utf-8-sig, then latin-1
safe_decode(data) ==
    IF decode_utf8(data).ok THEN decode_utf8(data).text
    ELSE IF decode_utf8_sig(data).ok THEN decode_utf8_sig(data).text
    ELSE decode_latin1(data).text

\* len(s.encode('utf-8'))
encoded_len(t) == Eval(TextLen, str_encode(t))

---------------------------------------------------------------------------
(* str.strip                                                               *)

Whitespace ==
    {9, 10, 11, 12, 13, 28, 29, 30, 31, 32, 133, 160, 5760, 8232, 8233,
     8239, 8287, 12288} \cup (8192..8202)

IsBlank(l) == \A i \in 1..Len(l) : l[i] \in Whitespace

lstrip_line(l) ==
    LET k == Min({i \in 1..Len(l) : l[i] \notin Whitespace})
    IN  SubSeq(l, k, Len(l))

rstrip_line(l) ==
    LET k == Max({i \in 1..Len(l) : l[i] \notin Whitespace})
    IN  SubSeq(l, 1, k)

\* s.strip(): blank lines at either end go with the "\n" around them
strip(t) ==
    LET solid == {i \in 1..Len(t) : ~IsBlank(t[i].line)}
    IN  IF solid = {} THEN EmptyText
        ELSE LET i  == Min(solid)
                 j  == Max(solid)
                 li == t[i].line
                 lj == t[j].line
             IN  IF i = j /\ t[i].count = 1
                 THEN <<Item(rstrip_line(lstrip_line(li)), 1)>>
                 ELSE Norm(<<Item(lstrip_line(li), 1)>>
                           \o (IF i = j THEN Copies(li, t[i].count - 2)
                               ELSE Copies(li, t[i].count - 1)
                                    \o SubSeq(t, i + 1, j - 1)
                                    \o Copies(lj, t[j].count - 1))
                           \o <<Item(rstrip_line(lj), 1)>>)

\* truth value of an optional str: None and "" are false
Truthy(t) == t # NoText /\ TextLen(t) > 0

---------------------------------------------------------------------------
(* Limits, get_sweep_pattern, enforce_limits, approx_size_mb               *)

MAX_OUTPUT_GCODE_MB == 40
MAX_LOOPS == 50
MAX_FILES == 20
MAX_CUSTOM_SWEEP_KB == 64

get_sweep_pattern ==
    Lines(<< "", "; --- AUTO SWEEP START ---", "M400", "G91", "G1 Z5 F2000",
             "G90", "G1 X0 Y220 F6000", "G1 X0 Y0 F6000", "G1 X55 Y220 F6000",
             "G1 X55 Y0 F6000", "G1 X110 Y220 F6000", "G1 X110 Y0 F6000",
             "G1 X165 Y220 F6000", "G1 X165 Y0 F6000", "G1 X220 Y220 F6000",
             "G1 X220 Y0 F6000", "M400", "; --- AUTO SWEEP END ---", "" >>)

NL == Lines(<<"", "">>)      \* "\n"

\* (override.strip() + "\n") if override and override.strip()
\*                           else get_sweep_pattern()
resolve_sweep(sweep_pattern_override) ==
    IF Truthy(sweep_pattern_override) /\ Truthy(strip(sweep_pattern_override))
    THEN Concat(strip(sweep_pattern_override), NL)
    ELSE get_sweep_pattern

\* approx_size_mb(s) > limit_mb: len(s.encode('utf-8')) / (1024*1024) is exact
\* in floating point, so the test is one on the byte count
size_exceeds_mb(t, limit_mb) == encoded_len(t) > limit_mb * 1024 * 1024

\* enforce_limits without the test of num_loops
enforce_limits_no_loop_check(loops, files_count, custom) ==
    IF files_count > MAX_FILES
    THEN [raised |-> "ValueError", msg |-> "Too many files"]
    ELSE IF Truthy(custom) /\ encoded_len(custom) > MAX_CUSTOM_SWEEP_KB * 1024
    THEN [raised |-> "ValueError", msg |-> "Custom sweep too large"]
    ELSE [raised |-> None, msg |-> None]

\* the first failing test raises; len(bytes)/1024 > 64 is exact as well
enforce_limits(loops, files_count, custom) ==
    IF loops > MAX_LOOPS
    THEN [raised |-> "ValueError", msg |-> "Loops exceed limit"]
    ELSE IF files_count > MAX_FILES
    THEN [raised |-> "ValueError", msg |-> "Too many files"]
    ELSE IF Truthy(custom) /\ encoded_len(custom) > MAX_CUSTOM_SWEEP_KB * 1024
    THEN [raised |-> "ValueError", msg |-> "Custom sweep too large"]
    ELSE [raised |-> None, msg |-> None]

---------------------------------------------------------------------------
(* The container: zipfile.ZipFile over an uploaded file                     *)
(* An uploaded file is [name, is_zip, entries]; an entry is                *)
(* [name, data, compress_type], data being bytes.                          *)

EndsWith(s, suffix) ==
    /\ Len(s) >= Len(suffix)
    /\ SubSeq(s, Len(s) - Len(suffix) + 1, Len(s)) = suffix

\* ZipFile.namelist(): the entries' names in archive order
namelist(z) == [i \in 1..Len(z.entries) |-> z.entries[i].name]

\* ZipFile.read(name): of several entries of one name the last is read
zip_read(z, n) ==
    z.entries[Max({i \in 1..Len(z.entries) : z.entries[i].name = n})].data

\* [n for n in names if n.endswith(".gcode")]
gcode_names(z) == SelectSeq(namelist(z), LAMBDA n : EndsWith(n, ".gcode"))

\* safe_decode ends with latin-1, which decodes any bytes, so the
\* UnicodeDecodeError handler is never entered
extract_first_gcode_from_3mf(uploaded_file) ==
    IF ~uploaded_file.is_zip
    THEN [raised |-> "GcodeParseError", msg |-> "is not a valid 3MF (zip) file",
          text |-> NoText, path |-> None]
    ELSE IF gcode_names(uploaded_file) = <<>>
    THEN [raised |-> "GcodeParseError", msg |-> "No .gcode asset found",
          text |-> NoText, path |-> None]
    ELSE [raised |-> None, msg |-> None,
          text |-> safe_decode(zip_read(uploaded_file,
                                        gcode_names(uploaded_file)[1])),
          path |-> gcode_names(uploaded_file)[1]]

\* writestr(n, ...) into ZipFile(out_buf, "w", compression=ZIP_DEFLATED)
written_entry(n, data) ==
    [name |-> n, data |-> data, compress_type |-> "ZIP_DEFLATED"]

\* wrap_in_3mf that keeps the uploaded .gcode entry as it is
wrap_in_3mf_keep_gcode(new_gcode_text, base_3mf_file) ==
    IF ~base_3mf_file.is_zip
    THEN [raised |-> "BadZipFile", msg |-> "File is not a zip file",
          entries |-> <<>>]
    ELSE IF gcode_names(base_3mf_file) = <<>>
    THEN [raised |-> "GcodeParseError", msg |-> "No .gcode asset found",
          entries |-> <<>>]
    ELSE [raised |-> None, msg |-> None,
          entries |-> [i \in 1..Len(base_3mf_file.entries) |->
                         written_entry(namelist(base_3mf_file)[i],
                            zip_read(base_3mf_file, namelist(base_3mf_file)[i]))]]

\* the returned bytes are given as the archive they hold
wrap_in_3mf(new_gcode_text, base_3mf_file) ==
    IF ~base_3mf_file.is_zip
    THEN [raised |-> "BadZipFile", msg |-> "File is not a zip file",
          entries |-> <<>>]
    ELSE IF gcode_names(base_3mf_file) = <<>>
    THEN [raised |-> "GcodeParseError", msg |-> "No .gcode asset found",
          entries |-> <<>>]
    ELSE LET names == namelist(base_3mf_file)
             replace_target == gcode_names(base_3mf_file)[1]
         IN  [raised |-> None, msg |-> None,
              entries |-> [i \in 1..Len(names) |->
                 IF names[i] = replace_target
                 THEN written_entry(names[i], str_encode(new_gcode_text))
                 ELSE written_entry(names[i],
                                    zip_read(base_3mf_file, names[i]))]]

---------------------------------------------------------------------------
(* create_looped_gcode                                                     *)
(* A part is one string appended to the list that is joined, tagged with   *)
(* what it is; an f-string is given as the strings it is made of.          *)

Part(k, li, fi, t) == [kind |-> k, loop |-> li, file |-> fi, text |-> t]

PartTexts(ps) == [i \in 1..Len(ps) |-> ps[i].text]

LOOP_PREFIX == Str("; === LOOP ")
START_SUFFIX == Str(" START ===")
END_SUFFIX == Str(" END ===")
G4_PREFIX == Str("G4 S")
WAIT_INFIX == Str(" ; wait ")
MINUTES_SUFFIX == Str(" minutes")
WAITING_AND_SWEEPING == Lines(<<"", "; --- WAITING AND SWEEPING ---", "">>)
M400_LINE == Lines(<<"M400", "">>)
FINAL_SWEEP == Lines(<<"", "; --- FINAL SWEEP ---", "">>)
HOME_ALL_AXES == Lines(<<"G28 ; home all axes", "">>)

\* "\n" + line + "\n"
Framed(line) == <<Item(<<>>, 1), Item(line, 1), Item(<<>>, 1)>>

\* f"G4 S{sec} ; wait {min} minutes"
wait_line(sweep_interval_sec, sweep_interval_min) ==
    G4_PREFIX \o Str(ToString(sweep_interval_sec)) \o WAIT_INFIX
    \o Str(ToString(sweep_interval_min)) \o MINUTES_SUFFIX

\* the test `i < num_loops - 1` taken as always true
more_loops_always(i, loops) == TRUE

\* i < num_loops - 1, for the 0-based loop index i
more_loops(i, loops) == i < loops - 1

\* what one pass of `for i in range(num_loops)` appends
single_loop_parts(i, loops, print_moves, sweep_pattern, sweep_interval_min) ==
    << Part("loop_start", i + 1, 0,
            Framed(LOOP_PREFIX \o Str(ToString(i + 1)) \o START_SUFFIX)),
       Part("print_moves", i + 1, 0, print_moves),
       Part("loop_end", i + 1, 0,
            Framed(LOOP_PREFIX \o Str(ToString(i + 1)) \o END_SUFFIX)) >>
    \o (IF more_loops(i, loops)
        THEN << Part("wait_marker", i + 1, 0, WAITING_AND_SWEEPING),
                Part("sync", i + 1, 0, M400_LINE),
                Part("loop_wait", i + 1, 0,
                     <<Item(wait_line(sweep_interval_min * 60,
                                      sweep_interval_min), 1),
                       Item(<<>>, 1)>>),
                Part("loop_sweep", i + 1, 0, sweep_pattern),
                Part("newline", i + 1, 0, NL) >>
        ELSE <<>>)

RECURSIVE single_loops(_, _, _, _, _)
single_loops(i, loops, print_moves, sweep_pattern, sweep_interval_min) ==
    IF i >= loops THEN <<>>
    ELSE single_loop_parts(i, loops, print_moves, sweep_pattern,
                           sweep_interval_min)
         \o single_loops(i + 1, loops, print_moves, sweep_pattern,
                         sweep_interval_min)

\* the tail with the footer put before the final sweep and the homing
single_tail_footer_first(sweep_pattern, footer, disable_home) ==
    << Part("footer", 0, 0, footer),
       Part("final_sweep_marker", 0, 0, FINAL_SWEEP),
       Part("final_sweep", 0, 0, sweep_pattern) >>
    \o (IF ~disable_home
        THEN <<Part("home", 0, 0, HOME_ALL_AXES)>> ELSE <<>>)

\* what is appended after the loops
single_tail(sweep_pattern, footer, disable_home) ==
    << Part("final_sweep_marker", 0, 0, FINAL_SWEEP),
       Part("final_sweep", 0, 0, sweep_pattern) >>
    \o (IF ~disable_home
        THEN <<Part("home", 0, 0, HOME_ALL_AXES)>> ELSE <<>>)
    \o <<Part("footer", 0, 0, footer)>>

Raised(kind, msg) == [raised |-> kind, msg |-> msg, out |-> NoText]

\* the size test cutting the text at the ceiling instead of raising
checked_output_truncated(ps, msg) ==
    Eval(LAMBDA out : [raised |-> None, msg |-> None,
                       out |-> IF size_exceeds_mb(out, MAX_OUTPUT_GCODE_MB)
                               THEN Slice(out, 0, MAX_OUTPUT_GCODE_MB
                                                  * 1024 * 1024)
                               ELSE out],
         Join(PartTexts(ps)))

\* out = "".join(parts), then the size test and the return
checked_output(ps, msg) ==
    Eval(LAMBDA out : IF size_exceeds_mb(out, MAX_OUTPUT_GCODE_MB)
                      THEN Raised("GcodeSizeError", msg)
                      ELSE [raised |-> None, msg |-> None, out |-> out],
         Join(PartTexts(ps)))

\* one call, the locals it assigns and what it returns or raises
create_looped_gcode(text, loops, sweep_interval_min, sweep_pattern_override, disable_home) ==
    /\ sweep' = resolve_sweep(sweep_pattern_override)
    /\ sections' = find_gcode_sections(text)
    /\ parts' = IF sections'.raised # None THEN <<>>
                ELSE <<Part("header", 0, 0, sections'.header)>>
                     \o single_loops(0, loops, sections'.print_moves, sweep',
                                     sweep_interval_min)
                     \o single_tail(sweep', sections'.footer, disable_home)
    /\ result' = IF sections'.raised # None
                 THEN Raised(sections'.raised, sections'.msg)
                 ELSE checked_output(parts',
                        "Output G-code exceeds 40 MB limit (try fewer loops)")
    /\ UNCHANGED combined

---------------------------------------------------------------------------
(* build_combined_looped_gcode                                             *)

BASE_START == Lines(<<"", "; === COMBINED FILES BASE SEQUENCE START ===", "">>)
BASE_END == Lines(<<"", "; === COMBINED FILES BASE SEQUENCE END ===", "">>)
FILE_PREFIX == Str("; --- FILE ")
FILE_START_SUFFIX == Str(" START ---")
FILE_END_SUFFIX == Str(" END ---")
COLON_SPACE == Str(": ")
WAIT_BEFORE_NEXT_FILE == Str("; WAIT BEFORE NEXT FILE")
SWEEP_BETWEEN_FILES == Lines(<<"", "; SWEEP BETWEEN FILES", "">>)
FARM_START == Lines(<<"; === MULTI-FILE LOOPED FARM MODE START ===", "">>)
FARM_END == Lines(<<"", "; === MULTI-FILE LOOPED FARM MODE END ===", "">>)
WIDE_LOOP_PREFIX == Str("; ===== LOOP ")
WIDE_START_SUFFIX == Str(" START =====")
WIDE_END_SUFFIX == Str(" END =====")
BETWEEN_LOOP_SEQUENCES == Lines(<<"", "; --- BETWEEN LOOP SEQUENCES ---", "">>)
FINAL_SWEEP_NO_HOME == Lines(<<"", "; FINAL SWEEP (NO HOME)", "">>)
FINAL_SWEEP_AND_HOME == Lines(<<"", "; FINAL SWEEP & HOME", "">>)
NEWLINE_G28 == Lines(<<"", "G28">>)

\* f"; --- FILE {idx+1}: {uf.name}" + suffix
file_line(idx, name, suffix) ==
    FILE_PREFIX \o Str(ToString(idx + 1)) \o COLON_SPACE \o Str(name) \o suffix

\* the wait test nested as written, and the sweep test: `idx < len - 1 and
\* sweep_between_files`, then `per_file_wait_min > 0` inside it
emit_file_wait(idx, files_count, sweep_files, per_file_wait_min) ==
    idx < files_count - 1 /\ sweep_files /\ per_file_wait_min > 0

emit_file_sweep(idx, files_count, sweep_files) ==
    idx < files_count - 1 /\ sweep_files

\* what one pass of `for idx, uf in enumerate(three_mf_files)` appends,
\* print_moves being the body located in uf
file_parts(idx, files, print_moves, sweep_pattern, sweep_files, per_file_wait_min) ==
    << Part("file_start", 0, idx + 1,
            Framed(file_line(idx, files[idx + 1].name, FILE_START_SUFFIX))),
       Part("print_moves", 0, idx + 1, print_moves),
       Part("file_end", 0, idx + 1,
            Framed(file_line(idx, files[idx + 1].name, FILE_END_SUFFIX))) >>
    \o (IF emit_file_wait(idx, Len(files), sweep_files,
                          per_file_wait_min)
        THEN <<Part("file_wait", 0, idx + 1,
                    << Item(<<>>, 1), Item(WAIT_BEFORE_NEXT_FILE, 1),
                       Item(wait_line(per_file_wait_min * 60,
                                      per_file_wait_min), 1),
                       Item(<<>>, 1) >>)>>
        ELSE <<>>)
    \o (IF emit_file_sweep(idx, Len(files), sweep_files)
        THEN << Part("file_sweep_marker", 0, idx + 1, SWEEP_BETWEEN_FILES),
                Part("file_sweep", 0, idx + 1, sweep_pattern) >>
        ELSE <<>>)

\* what extract_first_gcode_from_3mf and find_gcode_sections give for one
\* file: the header and the body, or what was raised
file_sections(got) ==
    IF got.raised # None
    THEN [raised |-> got.raised, msg |-> got.msg, header |-> NoText,
          print_moves |-> NoText]
    ELSE Eval(LAMBDA found : [raised |-> found.raised, msg |-> found.msg,
                              header |-> found.header,
                              print_moves |-> found.print_moves],
              find_gcode_sections(got.text))

file_body(uf) == Eval(file_sections, extract_first_gcode_from_3mf(uf))

RECURSIVE base_files(_, _, _, _, _, _)
base_files(idx, files, docs, sweep_pattern, sweep_files, per_file_wait_min) ==
    IF idx >= Len(files) THEN <<>>
    ELSE file_parts(idx, files, docs[idx + 1].print_moves, sweep_pattern,
                    sweep_files, per_file_wait_min)
         \o base_files(idx + 1, files, docs, sweep_pattern, sweep_files,
                       per_file_wait_min)

\* base_parts when every file has given a body
all_base_parts(files, docs, sweep_pattern, sweep_files, per_file_wait_min) ==
    << Part("header", 0, 1, docs[1].header),
       Part("base_start", 0, 0, BASE_START) >>
    \o base_files(0, files, docs, sweep_pattern, sweep_files,
                  per_file_wait_min)
    \o <<Part("base_end", 0, 0, BASE_END)>>

InLoop(ps, li) == [i \in 1..Len(ps) |-> [ps[i] EXCEPT !.loop = li]]

\* what one pass of `for li in range(num_loops)` appends; combined_base is
\* given as the parts it was joined from
combined_loop_parts(li, loops, base, sweep_pattern, sweep_interval_min) ==
    << Part("loop_start", li + 1, 0,
            Framed(WIDE_LOOP_PREFIX \o Str(ToString(li + 1))
                   \o WIDE_START_SUFFIX)) >>
    \o InLoop(base, li + 1)
    \o << Part("loop_end", li + 1, 0,
               Framed(WIDE_LOOP_PREFIX \o Str(ToString(li + 1))
                      \o WIDE_END_SUFFIX)) >>
    \o (IF more_loops(li, loops)
        THEN << Part("between_marker", li + 1, 0, BETWEEN_LOOP_SEQUENCES),
                Part("loop_wait", li + 1, 0,
                     <<Item(wait_line(sweep_interval_min * 60,
                                      sweep_interval_min), 1),
                       Item(<<>>, 1)>>),
                Part("loop_sweep", li + 1, 0, sweep_pattern) >>
        ELSE <<>>)

RECURSIVE combined_loops(_, _, _, _, _)
combined_loops(li, loops, base, sweep_pattern, sweep_interval_min) ==
    IF li >= loops THEN <<>>
    ELSE combined_loop_parts(li, loops, base, sweep_pattern,
                             sweep_interval_min)
         \o combined_loops(li + 1, loops, base, sweep_pattern,
                           sweep_interval_min)

combined_tail(sweep_pattern, disable_home) ==
    << Part("final_sweep_marker", 0, 0,
            IF disable_home THEN FINAL_SWEEP_NO_HOME
            ELSE FINAL_SWEEP_AND_HOME),
       Part("final_sweep", 0, 0, sweep_pattern) >>
    \o (IF ~disable_home
        THEN <<Part("home", 0, 0, NEWLINE_G28)>> ELSE <<>>)
    \o <<Part("farm_end", 0, 0, FARM_END)>>

\* the files that cannot be read or located, 1-based
Unreadable(docs) == {k \in 1..Len(docs) : docs[k].raised # None}

\* one call, the locals it assigns and what it returns or raises.  The files
\* are read in order, the first one once more before the others for its
\* header: the first file that cannot be read or located raises.
build_combined_looped_gcode(three_mf_files, loops, sweep_interval_min, sweep_files, per_file_wait_min, sweep_pattern_override, disable_home) ==
    /\ sweep' = resolve_sweep(sweep_pattern_override)
    /\ bodies' = [k \in 1..Len(three_mf_files) |-> file_body(three_mf_files[k])]
    /\ base_parts' = IF Unreadable(bodies') # {} THEN <<>>
                     ELSE all_base_parts(three_mf_files, bodies', sweep',
                                         sweep_files, per_file_wait_min)
    /\ parts' = IF Unreadable(bodies') # {} THEN <<>>
                ELSE <<Part("farm_start", 0, 0, FARM_START)>>
                     \o combined_loops(0, loops, base_parts', sweep',
                                       sweep_interval_min)
                     \o combined_tail(sweep', disable_home)
    /\ result' = IF Unreadable(bodies') # {}
                 THEN Raised(bodies'[Min(Unreadable(bodies'))].raised,
                             bodies'[Min(Unreadable(bodies'))].msg)
                 ELSE checked_output(parts',
                        "Output G-code exceeds 40 MB limit (reduce loops/files)")
    /\ UNCHANGED sections

---------------------------------------------------------------------------
(* The order input of the multi-file branch                                *)

Comma == 44
Underscore == 95
Digits == 48..57

\* s.split(","), s one line
RECURSIVE split_commas(_)
split_commas(l) ==
    LET commas == {i \in 1..Len(l) : l[i] = Comma}
    IN  IF commas = {} THEN <<l>>
        ELSE <<SubSeq(l, 1, Min(commas) - 1)>>
             \o split_commas(SubSeq(l, Min(commas) + 1, Len(l)))

\* x.strip(), x one line
strip_line(l) == IF IsBlank(l) THEN <<>> ELSE rstrip_line(lstrip_line(l))

RECURSIVE digits_value(_)
digits_value(ds) ==
    IF ds = <<>> THEN 0
    ELSE 10 * digits_value(SubSeq(ds, 1, Len(ds) - 1)) + (ds[Len(ds)] - 48)

\* int(x) of a stripped ASCII token: an optional sign, then digits that
\* single underscores may separate; anything else is a ValueError
parse_int(x) ==
    LET signed == x # <<>> /\ x[1] \in {43, 45}
        body   == IF signed THEN Tail(x) ELSE x
        ok     == /\ body # <<>>
                  /\ \A i \in 1..Len(body) : body[i] \in Digits \cup {Underscore}
                  /\ body[1] # Underscore
                  /\ body[Len(body)] # Underscore
                  /\ \A i \in 1..(Len(body) - 1) :
                        ~(body[i] = Underscore /\ body[i + 1] = Underscore)
        v      == digits_value(SelectSeq(body, LAMBDA c : c # Underscore))
    IN  [ok |-> ok,
         value |-> IF ~ok THEN 0 ELSE IF signed /\ x[1] = 45 THEN -v ELSE v]

\* [x.strip() for x in order_input.split(",") if x.strip()]
order_tokens(line) ==
    LET stripped == [i \in 1..Len(split_commas(line)) |->
                        strip_line(split_commas(line)[i])]
    IN  SelectSeq(stripped, LAMBDA x : x # <<>>)

\* resolve_order that takes any list of valid indices for an order
resolve_order_unchecked(files, line) ==
    IF line = <<>> THEN [raised |-> None, ordered |-> files]
    ELSE LET toks == order_tokens(line)
             idxs == [i \in 1..Len(toks) |-> parse_int(toks[i]).value - 1]
         IN  IF \E i \in 1..Len(toks) : ~parse_int(toks[i]).ok
             THEN [raised |-> "ValueError", ordered |-> <<>>]
             ELSE IF \E i \in 1..Len(idxs) : idxs[i] \notin 0..(Len(files) - 1)
             THEN [raised |-> "IndexError", ordered |-> <<>>]
             ELSE [raised |-> None,
                   ordered |-> [i \in 1..Len(idxs) |-> files[idxs[i] + 1]]]

\* `ordered = uploaded_files`, then, if order_input: the indices, the test
\* sorted(idxs) != list(range(len(uploaded_files))), the permuted list
resolve_order(files, line) ==
    IF line = <<>> THEN [raised |-> None, ordered |-> files]
    ELSE LET toks == order_tokens(line)
             idxs == [i \in 1..Len(toks) |-> parse_int(toks[i]).value - 1]
         IN  IF \E i \in 1..Len(toks) : ~parse_int(toks[i]).ok
             THEN [raised |-> "ValueError", ordered |-> <<>>]
             ELSE IF ~(/\ Len(idxs) = Len(files)
                       /\ {idxs[i] : i \in 1..Len(idxs)} = 0..(Len(files) - 1))
             THEN [raised |-> "ValueError", ordered |-> <<>>]
             ELSE [raised |-> None,
                   ordered |-> [i \in 1..Len(idxs) |-> files[idxs[i] + 1]]]

\* custom_sweep if custom_sweep.strip() else None
sweep_override(custom) == IF Truthy(strip(custom)) THEN custom ELSE NoText

---------------------------------------------------------------------------
(* Values of the variables before anything was computed                    *)

NoSections ==
    [raised |-> None, msg |-> None, header |-> NoText, print_moves |-> NoText,
     footer |-> NoText, start_scan |-> -1, end_scan |-> -1,
     fallback |-> FALSE, start |-> -1, end |-> -1]

NoResult == [raised |-> None, msg |-> None, out |-> NoText]

NoOutput == [raised |-> None, msg |-> None, entries |-> <<>>]

---------------------------------------------------------------------------
(* SpecLocate: find_gcode_sections applied to bounded texts                *)

MaxItems == 4
FillerLines == 9

LocatorLines ==
    { Item(Str(";LAYER:0"), 1),
      Item(Str(";TYPE:WALL-OUTER"), 1),
      Item(Str("G1 Z5 F2000"), 1),
      Item(Str("G1 X1 Y1 E1"), FillerLines),
      Item(Str(";END gcode"), 1),
      Item(Str("M104 S0"), 1),
      Item(Str("; bed M140 S0"), 1),
      Item(Str("G28"), 1) }

LocatorTexts ==
    UNION { [1..n -> LocatorLines] : n \in 1..MaxItems }

InitLocate ==
    /\ pc = "call"
    /\ gcode_text \in LocatorTexts
    /\ sections = NoSections
    /\ sweep = NoText
    /\ bodies = <<>>
    /\ base_parts = <<>>
    /\ parts = <<>>
    /\ uploaded_files = <<>>
    /\ num_loops = 1
    /\ sweep_interval = 60
    /\ disable_final_home = FALSE
    /\ custom_sweep = EmptyText
    /\ order_input = <<>>
    /\ sweep_between_files = FALSE
    /\ per_file_wait = 0
    /\ ordered = <<>>
    /\ result = NoResult
    /\ looped_gcode = NoText
    /\ output_3mf = NoOutput
    /\ calls = <<>>
    /\ reported = None

FindSections ==
    /\ pc = "call"
    /\ sections' = find_gcode_sections(gcode_text)
    /\ pc' = IF sections'.raised = None THEN "returned" ELSE "raised"
    /\ calls' = Append(calls, "find_gcode_sections")
    /\ UNCHANGED <<gcode_text, sweep, combined, parts, widgets, ordered,
                   result, looped_gcode, output_3mf, reported>>

NextLocate == FindSections

SpecLocate == InitLocate /\ [][NextLocate]_vars

---------------------------------------------------------------------------
(* Documents and packages the specifications draw their inputs from        *)

BigLines == 2000000
SweepLines == 7000

Filler(k) == Item(Str("G1 X1 Y1 E1"), k)

\* located by the marker scan
DocA ==
    <<Item(Str("; header A"), 1), Item(Str(";LAYER:0"), 1), Filler(FillerLines),
      Item(Str(";END gcode"), 1), Item(Str("M104 S0"), 1)>>

\* located by the fallback scan alone
DocB ==
    <<Item(Str("; header B"), 1), Item(Str("G1 Z5 F2000"), 1),
      Item(Str("G1 X2 Y2 E2"), FillerLines), Item(Str("G28 ; home"), 1),
      Item(<<>>, 1)>>

\* start by the marker scan, end by the fallback scan; a comment in Latin-1
DocC ==
    <<Item(Str("; caf") \o <<233>>, 1), Item(Str(";TYPE:WALL-OUTER"), 1),
      Item(Str("G1 X3 Y3 E3"), FillerLines), Item(Str("G28"), 1)>>

\* twenty-four megabytes of moves
DocBig ==
    <<Item(Str("; header"), 1), Item(Str(";LAYER:0"), 1), Filler(BigLines),
      Item(Str(";END gcode"), 1)>>

DocNoMarkers == <<Item(Str("; nothing to print"), 1), Filler(FillerLines)>>

DocShort == <<Item(Str(";LAYER:0"), 1), Filler(1), Item(Str(";END gcode"), 1)>>

ModelEntry ==
    [name |-> "3D/3dmodel.model", data |-> Lines(<<"<model/>", "">>),
     compress_type |-> "ZIP_STORED"]

GcodeEntry(doc) ==
    [name |-> "Metadata/plate_1.gcode", data |-> doc,
     compress_type |-> "ZIP_DEFLATED"]

Package(n, doc) ==
    [name |-> n, is_zip |-> TRUE, entries |-> <<ModelEntry, GcodeEntry(doc)>>]

FileA == Package("a.3mf", DocA)
FileB == Package("b.3mf", DocB)
FileC == Package("c.3mf", DocC)
FileBig == Package("big.3mf", DocBig)
FileUnparsable == Package("flat.3mf", DocNoMarkers)
FileShort == Package("short.3mf", DocShort)
FileNoGcode == [name |-> "unsliced.3mf", is_zip |-> TRUE, entries |-> <<ModelEntry>>]
FileBad == [name |-> "bad.3mf", is_zip |-> FALSE, entries |-> <<>>]

SmallSweep ==
    <<Item(Str("  ; wipe"), 1), Item(Str("G1 X0 Y0 F9000"), 2), Item(<<>>, 2)>>

BlankSweep == <<Item(Str("  "), 1), Item(<<>>, 1)>>

\* more than 64 KB
HugeSweep == <<Item(Str("G1 X0 Y0 "), SweepLines)>>

---------------------------------------------------------------------------
(* SpecSingle: create_looped_gcode applied to bounded arguments            *)

MaxLoopsIn == 3

LoopCounts == (1..MaxLoopsIn) \cup {MAX_LOOPS}

InitSingle ==
    /\ pc = "call"
    /\ gcode_text \in {DocA, DocB, safe_decode(DocC), DocBig, DocNoMarkers,
                       DocShort}
    /\ num_loops \in LoopCounts
    /\ sweep_interval \in {0, 10}
    /\ disable_final_home \in BOOLEAN
    /\ custom_sweep \in {NoText, SmallSweep}
    /\ sections = NoSections
    /\ sweep = NoText
    /\ bodies = <<>>
    /\ base_parts = <<>>
    /\ parts = <<>>
    /\ uploaded_files = <<>>
    /\ order_input = <<>>
    /\ sweep_between_files = FALSE
    /\ per_file_wait = 0
    /\ ordered = <<>>
    /\ result = NoResult
    /\ looped_gcode = NoText
    /\ output_3mf = NoOutput
    /\ calls = <<>>
    /\ reported = None

\* create_looped_gcode(gcode_text, num_loops, sweep_interval,
\*                     sweep_pattern_override, disable_final_home)
CreateLooped ==
    /\ pc = "call"
    /\ create_looped_gcode(gcode_text, num_loops, sweep_interval,
                           custom_sweep, disable_final_home)
    /\ pc' = IF result'.raised = None THEN "returned" ELSE "raised"
    /\ calls' = Append(calls, "create_looped_gcode")
    /\ UNCHANGED <<gcode_text, widgets, ordered, looped_gcode, output_3mf,
                   reported>>

NextSingle == CreateLooped

SpecSingle == InitSingle /\ [][NextSingle]_vars

---------------------------------------------------------------------------
(* Spec: one run of the processing block `if uploaded_files:` of the page  *)
(* script, a step per call it makes.  The runtime estimate (file_infos,    *)
(* parse_estimated_minutes) only feeds the report and is left out.         *)

RECURSIVE Repeat(_, _)
Repeat(x, k) == IF k = 0 THEN <<>> ELSE <<x>> \o Repeat(x, k - 1)

Uploads ==
    { <<FileA>>, <<FileB>>, <<FileBig>>, <<FileBad>>, <<FileNoGcode>>,
      <<FileUnparsable>>, <<FileShort>>,
      <<FileA, FileB>>, <<FileA, FileB, FileC>>, <<FileBig, FileA>>,
      <<FileA, FileBad>>, <<FileB, FileUnparsable>>,
      Repeat(FileA, MAX_FILES + 1) }

OrderInputs ==
    { Str(""), Str("2,1"), Str(" 2 , 1,"), Str("3,1,2"), Str("1,1"),
      Str("1"), Str("0,1"), Str("2,x") }

LoopInputs == (1..MaxLoopsIn) \cup {MAX_LOOPS + 1}

\* the widgets' values: every combination with few loops or too many, and
\* the largest loop count allowed with the other widgets left as they are
\* shown; the multi-file widgets exist with more than one upload only
Init ==
    /\ pc = "enforce_limits"
    /\ uploaded_files \in Uploads
    /\ sweep_interval = 10
    /\ disable_final_home = FALSE
    /\ \/ /\ num_loops \in LoopInputs
          /\ custom_sweep \in {EmptyText, BlankSweep, SmallSweep, HugeSweep}
          /\ IF Len(uploaded_files) > 1
             THEN /\ order_input \in OrderInputs
                  /\ sweep_between_files \in BOOLEAN
                  /\ per_file_wait \in {0, 5}
             ELSE /\ order_input = <<>>
                  /\ sweep_between_files = FALSE
                  /\ per_file_wait = 0
       \/ /\ num_loops = MAX_LOOPS
          /\ custom_sweep = EmptyText
          /\ order_input = <<>>
          /\ sweep_between_files = (Len(uploaded_files) > 1)
          /\ per_file_wait = 0
    /\ gcode_text = NoText
    /\ sections = NoSections
    /\ sweep = NoText
    /\ bodies = <<>>
    /\ base_parts = <<>>
    /\ parts = <<>>
    /\ ordered = <<>>
    /\ result = NoResult
    /\ looped_gcode = NoText
    /\ output_3mf = NoOutput
    /\ calls = <<>>
    /\ reported = None

\* except (GcodeParseError, GcodeSizeError, ValueError): st.error;
\* except Exception: st.exception
Fail(kind) ==
    /\ pc' = "failed"
    /\ reported' = kind

\* enforce_limits(num_loops, len(uploaded_files), custom_sweep)
EnforceLimits ==
    /\ pc = "enforce_limits"
    /\ calls' = Append(calls, "enforce_limits")
    /\ LET r == enforce_limits(num_loops, Len(uploaded_files), custom_sweep)
       IN  IF r.raised # None THEN Fail(r.raised)
           ELSE /\ pc' = IF Len(uploaded_files) = 1 THEN "extract" ELSE "order"
                /\ UNCHANGED reported
    /\ UNCHANGED <<gcode_text, sections, sweep, combined, parts, widgets,
                   ordered, result, looped_gcode, output_3mf>>

\* gtext, _gpath = extract_first_gcode_from_3mf(uploaded_files[0])
ExtractSingle ==
    /\ pc = "extract"
    /\ calls' = Append(calls, "extract_first_gcode_from_3mf")
    /\ LET r == extract_first_gcode_from_3mf(uploaded_files[1])
       IN  IF r.raised # None
           THEN Fail(r.raised) /\ UNCHANGED gcode_text
           ELSE /\ gcode_text' = r.text
                /\ pc' = "create"
                /\ UNCHANGED reported
    /\ UNCHANGED <<sections, sweep, combined, parts, widgets, ordered,
                   result, looped_gcode, output_3mf>>

\* looped_gcode = create_looped_gcode(gtext, num_loops, sweep_interval, ...)
AssembleSingle ==
    /\ pc = "create"
    /\ calls' = Append(calls, "create_looped_gcode")
    /\ create_looped_gcode(gcode_text, num_loops, sweep_interval,
                           sweep_override(custom_sweep), disable_final_home)
    /\ IF result'.raised # None
       THEN Fail(result'.raised) /\ UNCHANGED looped_gcode
       ELSE /\ looped_gcode' = result'.out
            /\ pc' = "wrap"
            /\ UNCHANGED reported
    /\ UNCHANGED <<gcode_text, widgets, ordered, output_3mf>>

\* the order input: on any exception st.error and st.stop() end the run
ResolveOrder ==
    /\ pc = "order"
    /\ LET r == resolve_order(uploaded_files, order_input)
       IN  IF r.raised # None
           THEN /\ pc' = "stopped"
                /\ reported' = "Order parse error"
                /\ UNCHANGED ordered
           ELSE /\ ordered' = r.ordered
                /\ pc' = "combine"
                /\ UNCHANGED reported
    /\ UNCHANGED <<gcode_text, sections, sweep, combined, parts, widgets,
                   result, looped_gcode, output_3mf, calls>>

\* looped_gcode = build_combined_looped_gcode(ordered, num_loops, ...)
AssembleCombined ==
    /\ pc = "combine"
    /\ calls' = Append(calls, "build_combined_looped_gcode")
    /\ build_combined_looped_gcode(ordered, num_loops, sweep_interval,
                                   sweep_between_files, per_file_wait,
                                   sweep_override(custom_sweep),
                                   disable_final_home)
    /\ IF result'.raised # None
       THEN Fail(result'.raised) /\ UNCHANGED looped_gcode
       ELSE /\ looped_gcode' = result'.out
            /\ pc' = "wrap"
            /\ UNCHANGED reported
    /\ UNCHANGED <<gcode_text, widgets, ordered, output_3mf>>

\* output_3mf = wrap_in_3mf(looped_gcode, uploaded_files[0] or ordered[0]);
\* then the success banner and the download button
Wrap ==
    /\ pc = "wrap"
    /\ calls' = Append(calls, "wrap_in_3mf")
    /\ output_3mf' = wrap_in_3mf(looped_gcode,
                         IF Len(uploaded_files) = 1 THEN uploaded_files[1]
                         ELSE ordered[1])
    /\ IF output_3mf'.raised # None
       THEN Fail(output_3mf'.raised)
       ELSE pc' = "done" /\ UNCHANGED reported
    /\ UNCHANGED <<gcode_text, sections, sweep, combined, parts, widgets,
                   ordered, result, looped_gcode>>

Next ==
    \/ EnforceLimits
    \/ ExtractSingle
    \/ AssembleSingle
    \/ ResolveOrder
    \/ AssembleCombined
    \/ Wrap

Spec == Init /\ [][Next]_vars

---------------------------------------------------------------------------
(* SpecWrap: wrap_in_3mf applied to bounded packages and texts             *)

MaxEntries == 2

\* entries of a package: two instruction-file names and another name, two
\* contents, both compression methods; a package may hold a name twice
WrapEntries ==
    { [name |-> n, data |-> d, compress_type |-> c] :
        n \in {"Metadata/plate_1.gcode", "Metadata/plate_2.gcode",
               "3D/3dmodel.model"},
        d \in {Lines(<<"G28", "">>), <<Item(<<195, 169>>, 2)>>},
        c \in {"ZIP_STORED", "ZIP_DEFLATED"} }

WrapPackages ==
    { [name |-> "p.3mf", is_zip |-> TRUE, entries |-> es] :
        es \in UNION { [1..n -> WrapEntries] : n \in 1..MaxEntries } }
    \cup {FileBad}

\* the texts written: ASCII, a code point of two UTF-8 bytes, the empty text
WrapTexts ==
    { Lines(<<"; looped", "G1 X1", "">>), <<Item(Str("; caf") \o <<233>>, 2)>>,
      EmptyText }

InitWrap ==
    /\ pc = "call"
    /\ uploaded_files \in {<<z>> : z \in WrapPackages}
    /\ looped_gcode \in WrapTexts
    /\ gcode_text = NoText
    /\ sections = NoSections
    /\ sweep = NoText
    /\ bodies = <<>>
    /\ base_parts = <<>>
    /\ parts = <<>>
    /\ num_loops = 1
    /\ sweep_interval = 60
    /\ disable_final_home = FALSE
    /\ custom_sweep = EmptyText
    /\ order_input = <<>>
    /\ sweep_between_files = FALSE
    /\ per_file_wait = 0
    /\ ordered = <<>>
    /\ result = NoResult
    /\ output_3mf = NoOutput
    /\ calls = <<>>
    /\ reported = None

\* wrap_in_3mf(looped_gcode, uploaded_files[0])
WrapPackage ==
    /\ pc = "call"
    /\ output_3mf' = wrap_in_3mf(looped_gcode, uploaded_files[1])
    /\ pc' = IF output_3mf'.raised = None THEN "returned" ELSE "raised"
    /\ calls' = Append(calls, "wrap_in_3mf")
    /\ UNCHANGED <<gcode_text, sections, sweep, combined, parts, widgets,
                   ordered, result, looped_gcode, reported>>

NextWrap == WrapPackage

SpecWrap == InitWrap /\ [][NextWrap]_vars

---------------------------------------------------------------------------
(* Properties of find_gcode_sections, checked under SpecLocate             *)

StartMarkersPresent ==
    {i \in 1..Len(start_markers) : text_find(gcode_text, start_markers[i]) # -1}

\* C5: when the text holds a listed start marker, the start boundary is the
\* first occurrence of the present marker that is earliest in the list, also
\* when a marker later in the list occurs earlier in the text, and the
\* fallback scan leaves that boundary as the marker scan set it.
C5_StartByMarkerPriority ==
    (pc # "call" /\ StartMarkersPresent # {}) =>
        /\ sections.start
             = text_find(gcode_text, start_markers[Min(StartMarkersPresent)])
        /\ sections.start = sections.start_scan

\* C5 witness: the fallback ran, the start is the first ";LAYER:0" and the
\* lower-priority ";TYPE:WALL-OUTER" occurs before it.
C5_Witness ==
    /\ pc = "returned"
    /\ sections.fallback
    /\ sections.start = text_find(gcode_text, start_markers[1])
    /\ text_find(gcode_text, start_markers[3]) # -1
    /\ text_find(gcode_text, start_markers[3]) < sections.start

\* C6: a returned document has a body of at least 100 characters that runs
\* from start to end, and resolved boundaries with end before start make
\* the call fail.
C6_NoShortBody ==
    /\ pc = "returned" =>
          /\ TextLen(sections.print_moves) >= MIN_PRINT_MOVES
          /\ TextLen(sections.print_moves) = sections.end - sections.start
    /\ (pc # "call" /\ sections.start # -1 /\ sections.end # -1
          /\ sections.end < sections.start) =>
          (pc = "raised" /\ sections.raised = "ValueError")

\* C6 witness: both boundaries resolved, end before start, the call failed.
C6_Witness ==
    /\ pc = "raised"
    /\ sections.start # -1
    /\ sections.end # -1
    /\ sections.end < sections.start

\* C10: when the fallback scan runs, a boundary the marker scan resolved
\* keeps its value (the claim as stated; the code overwrites end).
C10_FallbackKeepsResolved ==
    (pc # "call" /\ sections.fallback) =>
        /\ sections.start_scan # -1 => sections.start = sections.start_scan
        /\ sections.end_scan # -1 => sections.end = sections.end_scan

\* the items of the text whose line is a move with a Z component, and those
\* whose line switches the extruder or the bed off or homes
ZMoveItems == {k \in 1..Len(gcode_text) : is_z_move(gcode_text[k].line)}
EndItems == {k \in 1..Len(gcode_text) : is_end_line(gcode_text[k].line)}

\* 0-based position of the last of the lines of item k
LastLineStart(t, k) == ItemStart(t, k) + (t[k].count - 1) * (Len(t[k].line) + 1)

\* the first half of C11: a start the fallback scan assigns is the position
\* of the first line that is a move with a Z component
FallbackStartAtFirstZMove ==
    (pc # "call" /\ sections.fallback /\ sections.start_scan = -1
       /\ ZMoveItems # {}) =>
        sections.start = ItemStart(gcode_text, Min(ZMoveItems))

\* C11 as stated: when the fallback scan runs, a start it assigns is the
\* position of the first line that is a move with a Z component, and the
\* end is the position of the last line that switches the extruder or the
\* bed off or homes, also when the text of that line occurs earlier.
C11_FallbackFirstAndLastLine ==
    /\ FallbackStartAtFirstZMove
    /\ (pc # "call" /\ sections.fallback /\ EndItems # {}) =>
          sections.end = LastLineStart(gcode_text, Max(EndItems))

---------------------------------------------------------------------------
(* Properties of create_looped_gcode, checked under SpecSingle             *)

KindAt(ps, k) == IF k \in 1..Len(ps) THEN ps[k].kind ELSE None

PartsOfKind(ps, kind) == {k \in 1..Len(ps) : ps[k].kind = kind}

StartsWith(l, prefix) ==
    Len(l) >= Len(prefix) /\ SubSeq(l, 1, Len(prefix)) = prefix

\* the number of lines lo..hi (items) of t that start with prefix
RECURSIVE LinesStarting(_, _, _, _)
LinesStarting(t, prefix, lo, hi) ==
    IF lo > hi THEN 0
    ELSE IF lo = hi
    THEN (IF StartsWith(t[lo].line, prefix) THEN t[lo].count ELSE 0)
    ELSE LinesStarting(t, prefix, lo, (lo + hi) \div 2)
         + LinesStarting(t, prefix, (lo + hi) \div 2 + 1, hi)

\* C1: a call that returns for n loops has appended the located body n times
\* and the inter-loop timed wait n-1 times, and the returned text holds n-1
\* wait instructions (none of the documents drawn holds one of its own); so
\* with n = 1 there is no inter-loop wait.
C1_BodyAndWaitCounts ==
    pc = "returned" =>
        /\ Cardinality(PartsOfKind(parts, "print_moves")) = num_loops
        /\ \A k \in PartsOfKind(parts, "print_moves") :
              parts[k].text = sections.print_moves
        /\ Cardinality(PartsOfKind(parts, "loop_wait")) = num_loops - 1
        /\ LinesStarting(result.out, G4_PREFIX, 1, Len(result.out))
             = num_loops - 1
        /\ num_loops = 1 => PartsOfKind(parts, "loop_wait") = {}

\* C1 witness: a call with the largest small loop count returned, with one
\* wait fewer than bodies.
C1_Witness ==
    /\ pc = "returned"
    /\ num_loops = MaxLoopsIn
    /\ Cardinality(PartsOfKind(parts, "print_moves")) = MaxLoopsIn
    /\ Cardinality(PartsOfKind(parts, "loop_wait")) = MaxLoopsIn - 1

\* the index in parts of the loop-start marker of loop i (1-based): the
\* header, then eight parts for each loop that is not the last
LoopAt(i) == 2 + 8 * (i - 1)

\* the index in parts of the final-sweep marker
TailAt == LoopAt(num_loops) + 3

\* C4: the parts of a returned call are the header; then the loops in index
\* order, each a start marker, the body and an end marker, followed in every
\* loop but the last by synchronization, timed wait of 60 seconds a minute
\* and sweep; then one final sweep; then the homing exactly when it is not
\* disabled; then the footer, last.
C4_OutputOrder ==
    pc = "returned" =>
        /\ parts[1].kind = "header" /\ parts[1].text = sections.header
        /\ \A i \in 1..num_loops :
              /\ parts[LoopAt(i)].kind = "loop_start"
              /\ parts[LoopAt(i) + 1].kind = "print_moves"
              /\ parts[LoopAt(i) + 1].text = sections.print_moves
              /\ parts[LoopAt(i) + 2].kind = "loop_end"
              /\ \A d \in 0..2 : parts[LoopAt(i) + d].loop = i
              /\ i < num_loops =>
                    /\ parts[LoopAt(i) + 3].kind = "wait_marker"
                    /\ parts[LoopAt(i) + 4].kind = "sync"
                    /\ parts[LoopAt(i) + 4].text = Lines(<<"M400", "">>)
                    /\ parts[LoopAt(i) + 5].kind = "loop_wait"
                    /\ parts[LoopAt(i) + 5].text[1].line
                         = Str("G4 S" \o ToString(60 * sweep_interval)
                               \o " ; wait " \o ToString(sweep_interval)
                               \o " minutes")
                    /\ parts[LoopAt(i) + 6].kind = "loop_sweep"
                    /\ parts[LoopAt(i) + 6].text = sweep
                    /\ parts[LoopAt(i) + 7].kind = "newline"
        /\ parts[TailAt].kind = "final_sweep_marker"
        /\ parts[TailAt + 1].kind = "final_sweep"
        /\ parts[TailAt + 1].text = sweep
        /\ PartsOfKind(parts, "final_sweep") = {TailAt + 1}
        /\ PartsOfKind(parts, "home")
             = IF disable_final_home THEN {} ELSE {TailAt + 2}
        /\ ~disable_final_home =>
              parts[TailAt + 2].text = Lines(<<"G28 ; home all axes", "">>)
        /\ Len(parts) = TailAt + (IF disable_final_home THEN 2 ELSE 3)
        /\ parts[Len(parts)].kind = "footer"
        /\ parts[Len(parts)].text = sections.footer
        /\ result.out = Join(PartTexts(parts))

\* C4 witness: a call for several loops with homing returned; the homing is
\* the last part but one and the footer the last.
C4_Witness ==
    /\ pc = "returned"
    /\ num_loops >= 2
    /\ ~disable_final_home
    /\ KindAt(parts, Len(parts) - 1) = "home"
    /\ KindAt(parts, Len(parts)) = "footer"
    /\ KindAt(parts, LoopAt(1) + 5) = "loop_wait"

---------------------------------------------------------------------------
(* Properties of wrap_in_3mf, checked under SpecWrap                       *)

\* the package handed to wrap_in_3mf and the first instruction entry's name
Wrapped == uploaded_files[1]
Target == gcode_names(Wrapped)[1]

\* the index of the first instruction entry
TargetAt == Min({i \in 1..Len(Wrapped.entries) : Wrapped.entries[i].name = Target})

NoInstructionEntry ==
    (pc # "call" /\ Wrapped.is_zip /\ gcode_names(Wrapped) = <<>>) =>
        /\ pc = "raised"
        /\ output_3mf.raised = "GcodeParseError"
        /\ output_3mf.entries = <<>>

\* C9 as stated: the returned package read again has the same entry names,
\* the text as the first instruction entry's content and every other entry
\* as it was, content, name and compression; a package without instruction
\* entry fails with a parse error and gives no package.
C9_EntriesPreserved ==
    /\ pc = "returned" =>
          /\ namelist(output_3mf) = namelist(Wrapped)
          /\ decode_utf8(output_3mf.entries[TargetAt].data)
               = [ok |-> TRUE, text |-> looped_gcode]
          /\ \A i \in 1..Len(Wrapped.entries) :
                i # TargetAt => output_3mf.entries[i] = Wrapped.entries[i]
    /\ NoInstructionEntry

\* C9 amended: the same entry names in the same order; the text under the
\* first instruction entry's name; under every other name the bytes the
\* uploaded package gives under that name; every entry deflated, whatever
\* its compression was; a package without instruction entry fails with a
\* parse error and gives no package.
C9_ContentsPreserved ==
    /\ pc = "returned" =>
          /\ namelist(output_3mf) = namelist(Wrapped)
          /\ decode_utf8(zip_read(output_3mf, Target))
               = [ok |-> TRUE, text |-> looped_gcode]
          /\ \A i \in 1..Len(Wrapped.entries) :
                /\ Wrapped.entries[i].name # Target =>
                      zip_read(output_3mf, Wrapped.entries[i].name)
                        = zip_read(Wrapped, Wrapped.entries[i].name)
                /\ output_3mf.entries[i].compress_type = "ZIP_DEFLATED"
    /\ NoInstructionEntry

\* C9 witness: a package of a stored model entry and an instruction entry
\* was rewritten with a text that is not ASCII.
C9_Witness ==
    /\ pc = "returned"
    /\ Len(Wrapped.entries) = 2
    /\ Wrapped.entries[1].name = "3D/3dmodel.model"
    /\ Wrapped.entries[1].compress_type = "ZIP_STORED"
    /\ output_3mf.entries[1].data = Wrapped.entries[1].data
    /\ looped_gcode = <<Item(Str("; caf") \o <<233>>, 2)>>
    /\ output_3mf.entries[2].data = <<Item(Str("; caf") \o <<195, 169>>, 2)>>

---------------------------------------------------------------------------
(* Properties of the processing block, checked under Spec                  *)

Called(f) == \E i \in 1..Len(calls) : calls[i] = f

\* the combiner was called and returned
Combined == Called("build_combined_looped_gcode") /\ result.raised = None

PartsOfFile(ps, kind, k) ==
    {j \in 1..Len(ps) : ps[j].kind = kind /\ ps[j].file = k}

\* C2 as stated: in the base sequence a returned combiner built, a file is
\* followed by a timed wait exactly when it is not the last and
\* per_file_wait > 0, whatever sweep_between_files is, and by the sweep
\* pattern exactly when it is not the last and sweep_between_files is set.
C2_WaitAndSweepBetweenFiles ==
    Combined =>
        \A k \in 1..Len(ordered) :
            /\ PartsOfFile(base_parts, "file_wait", k) # {}
                 <=> (k < Len(ordered) /\ per_file_wait > 0)
            /\ PartsOfFile(base_parts, "file_sweep", k) # {}
                 <=> (k < Len(ordered) /\ sweep_between_files)

\* the 1-based index the order input gives for place k, upload order if the
\* input is empty
CallerIndex(k) ==
    IF order_input = <<>> THEN k
    ELSE parse_int(order_tokens(order_input)[k]).value

\* the headers and bodies appended for loop li, in the order appended
DocumentsOfLoop(li) ==
    SelectSeq(parts, LAMBDA q : q.loop = li
                                /\ q.kind \in {"header", "print_moves"})

\* what was appended for loop li apart from its markers, wait and sweep
BaseOfLoop(li) ==
    SelectSeq(parts, LAMBDA q : q.loop = li
                                /\ q.kind \notin {"loop_start", "loop_end",
                                                  "between_marker",
                                                  "loop_wait", "loop_sweep"})

\* C3: the output of a returned combiner holds the base sequence once for
\* each of the n loops, each copy the header of the first document in the
\* caller's order and then the body of every uploaded document once, in the
\* caller's order; a wait of 60 seconds a minute with the sweep right after
\* it follows every loop but the last, so n-1 times.
C3_LoopsOfBaseSequence ==
    Combined =>
        /\ \A li \in 1..num_loops :
              /\ BaseOfLoop(li) = InLoop(base_parts, li)
              /\ Len(DocumentsOfLoop(li)) = Len(uploaded_files) + 1
              /\ {CallerIndex(k) : k \in 1..Len(uploaded_files)}
                   = 1..Len(uploaded_files)
              /\ DocumentsOfLoop(li)[1].kind = "header"
              /\ DocumentsOfLoop(li)[1].text
                   = file_body(uploaded_files[CallerIndex(1)]).header
              /\ \A k \in 1..Len(uploaded_files) :
                    /\ DocumentsOfLoop(li)[k + 1].kind = "print_moves"
                    /\ DocumentsOfLoop(li)[k + 1].text
                         = file_body(uploaded_files[CallerIndex(k)]).print_moves
        /\ \A j \in 1..(Len(parts) - 1) :
              (parts[j].loop # 0 /\ parts[j + 1].loop # 0) =>
                  parts[j].loop <= parts[j + 1].loop
        /\ {parts[j].loop : j \in PartsOfKind(parts, "loop_wait")}
             = 1..(num_loops - 1)
        /\ Cardinality(PartsOfKind(parts, "loop_wait")) = num_loops - 1
        /\ Cardinality(PartsOfKind(parts, "loop_sweep")) = num_loops - 1
        /\ \A j \in PartsOfKind(parts, "loop_wait") :
              /\ parts[j].text[1].line
                   = Str("G4 S" \o ToString(60 * sweep_interval) \o " ; wait "
                         \o ToString(sweep_interval) \o " minutes")
              /\ parts[j + 1].kind = "loop_sweep"
              /\ parts[j + 1].text = sweep
              /\ parts[j + 1].loop = parts[j].loop
        /\ looped_gcode = Join(PartTexts(parts))

\* C3 witness: two files combined in the order "2,1" for several loops; the
\* first loop holds the header of the second upload, then its body, then
\* the body of the first upload.
C3_Witness ==
    /\ pc = "done"
    /\ uploaded_files = <<FileA, FileB>>
    /\ order_input = Str("2,1")
    /\ num_loops = MaxLoopsIn
    /\ [k \in 1..3 |-> DocumentsOfLoop(1)[k].text]
         = << find_gcode_sections(DocB).header,
              find_gcode_sections(DocB).print_moves,
              find_gcode_sections(DocA).print_moves >>
    /\ Cardinality(PartsOfKind(parts, "loop_wait")) = MaxLoopsIn - 1

\* the order input names every uploaded file exactly once
OrderIsPermutation ==
    /\ \A i \in 1..Len(order_tokens(order_input)) :
          parse_int(order_tokens(order_input)[i]).ok
    /\ Len(order_tokens(order_input)) = Len(uploaded_files)
    /\ {parse_int(order_tokens(order_input)[i]).value :
           i \in 1..Len(order_tokens(order_input))} = 1..Len(uploaded_files)

InvalidRequest ==
    \/ num_loops > MAX_LOOPS
    \/ Len(uploaded_files) > MAX_FILES
    \/ /\ custom_sweep # EmptyText
       /\ encoded_len(custom_sweep) > MAX_CUSTOM_SWEEP_KB * 1024
    \/ /\ Len(uploaded_files) > 1
       /\ order_input # <<>>
       /\ ~OrderIsPermutation

\* C7: for a request with too many loops, too many files, too large a sweep
\* override or an order input that is not a permutation of the uploaded
\* files, neither assembler is ever called.
C7_ValidationBeforeAssembly ==
    InvalidRequest =>
        /\ ~Called("create_looped_gcode")
        /\ ~Called("build_combined_looped_gcode")

\* C7 witness: a run ended at an order input naming one file twice, after
\* the limits were found in range and before any assembler was called.
C7_Witness ==
    /\ pc = "stopped"
    /\ order_input = Str("1,1")
    /\ calls = <<"enforce_limits">>
    /\ reported = "Order parse error"

\* the files a request reads
FilesRead == {uploaded_files[k] : k \in 1..Len(uploaded_files)}

\* C8: a run that failed has reported an error, has not run wrap_in_3mf and
\* holds neither assembled text nor output package; a run gets past the
\* assembler only if every file could be read and located; an assembled
\* text above the ceiling fails the run with the size error, and a text that
\* is returned is all of the joined parts and within the ceiling.
C8_NoPartialOutput ==
    /\ pc \in {"failed", "stopped"} =>
          /\ reported # None
          /\ ~Called("wrap_in_3mf")
          /\ looped_gcode = NoText
          /\ output_3mf = NoOutput
    /\ result.raised # None => (pc = "failed" /\ reported = result.raised)
    /\ pc \in {"wrap", "done"} =>
          /\ ~InvalidRequest
          /\ \A uf \in FilesRead : file_body(uf).raised = None
    /\ (parts # <<>> /\ size_exceeds_mb(Join(PartTexts(parts)),
                                        MAX_OUTPUT_GCODE_MB)) =>
          (pc = "failed" /\ reported = "GcodeSizeError")
    /\ looped_gcode # NoText =>
          /\ looped_gcode = Join(PartTexts(parts))
          /\ ~size_exceeds_mb(looped_gcode, MAX_OUTPUT_GCODE_MB)
    /\ pc = "done" =>
          /\ reported = None
          /\ output_3mf.raised = None
          /\ decode_utf8(zip_read(output_3mf, "Metadata/plate_1.gcode"))
               = [ok |-> TRUE, text |-> looped_gcode]

\* C8 witness: the parts were assembled, their size was above the ceiling,
\* and the run failed with the size error and without text or package.
C8_Witness ==
    /\ pc = "failed"
    /\ reported = "GcodeSizeError"
    /\ parts # <<>>
    /\ looped_gcode = NoText
    /\ output_3mf = NoOutput
    /\ ~Called("wrap_in_3mf")

=============================================================================
